---- MODULE Spec2Model ----
(***************************************************************************)
(* Readiness evaluation of the executor-rs security validation harness.    *)
(*                                                                         *)
(* Two validators share one design: executor-rs/security_validation.py     *)
(* ("full") and executor-rs/security_validation_simple.py ("simple").      *)
(* Each runs six categories of probes, collects (name, status) entries per *)
(* category in all_results, and hands them to generate_report, which       *)
(* counts the outcomes, collects the critical failures, and derives        *)
(* severity, pass rate, readiness, justification and the return value.     *)
(*                                                                         *)
(* generate_report is a function of all_results alone.  Spec draws         *)
(* all_results from a bounded family of result sets and applies it once;   *)
(* SpecPair applies it to two result sets of the same validator, to        *)
(* compare two runs.                                                       *)
(*                                                                         *)
(* SpecMain is a run of main: setup, the probes of the six categories one  *)
(* by one (script, invocation helper, judge, append), generate_report and  *)
(* the exit of the process; FairMain adds that main runs on.  SpecExit is  *)
(* main from the call of generate_report on.  SpecPool is the concurrent   *)
(* probe with its worker threads interleaved.  SpecFlight is main with     *)
(* the invocations of its probes in flight, SpecHelper one call of an      *)
(* invocation helper.                                                      *)
(*                                                                         *)
(* SpecRollback is test_rollback.py: the rollback test, then the           *)
(* concurrent access test with its worker threads interleaved, the script  *)
(* being run again on the directory it left; FairRollback adds that the    *)
(* threads run on.                                                         *)
(*                                                                         *)
(* Python floats: pass_rate = passed / total_tests * 100 is modelled as    *)
(* the exact quotient [num, den]; for every passed <= total the float      *)
(* comparisons against 90, 75, 70 and 60 agree with the exact ones.        *)
(***************************************************************************)
EXTENDS Integers, Sequences, FiniteSets, TLC

VARIABLES
    validator,      \* which script runs: "full" or "simple"
    all_results,    \* main's dict: sequence of <<category, list of <<name, status>>>>
    pc,             \* "call": generate_report not yet called; "returned"; "raised"
    error,          \* the exception that left generate_report, or "none"
    report,         \* report_data as built by generate_report, or NoReport
    writable,       \* environment: whether report_path can be opened for writing
    report_file,    \* "absent", or "written" once json.dump has written report_data
    returned,       \* generate_report's return value (is_production_ready), or "none"
    peer_results,   \* SpecPair: the all_results of a second run of the same validator
    peer_pc,        \* SpecPair: position of the second run ("off" when there is none)
    peer_report,    \* SpecPair: the second run's report_data
    step,           \* SpecMain: index in Probes(validator) of the probe main runs next
    stub,           \* SpecMain: whether setup() obtained the gRPC stub (self.stub)
    faults,         \* SpecMain: probes so far that did not end in a clean PASS
    test_results,   \* SpecMain: the list the running category function is filling
    trace,          \* SpecMain: the probes attempted so far, with what their invocation did
    exit_code,      \* SpecMain: <<status>> once the process has exited, <<>> before
    futures,        \* SpecPool: state of the future of each pooled request
    pool_results,   \* SpecPool: what list(executor.map(...)) has collected so far (results)
    pool_pc,        \* SpecPool: position of the thread that runs the concurrent probe
    pool_entry,     \* SpecPool: the entries the concurrent probe appended
    invocation,     \* SpecHelper: <<[helper, run]>>, the helper called and what the command does
    helper_result,  \* SpecHelper: <<what the helper returned>>, <<>> before it returns
    data_dir,       \* SpecRollback: the files of TEST_DATA_DIR
    snapshot_dir,   \* SpecRollback: the files of the snapshot directory
    rollback_pc,    \* SpecRollback: position of the main thread of test_rollback.py
    integrity,      \* SpecRollback: <<what verify_data_integrity returned>>
    record_queue,   \* SpecRollback: the record ids still in the queue
    workers,        \* SpecRollback: each worker thread's position and locals
    dequeued,       \* SpecRollback: history, the workers that got each record id
    total_updates,  \* SpecRollback: <<the sum printed after the join>>
    reruns          \* SpecRollback: how often the script has been run before

main_vars == <<step, stub, faults, test_results, trace, exit_code>>

pool_vars == <<futures, pool_results, pool_pc, pool_entry>>

helper_vars == <<invocation, helper_result>>

rollback_vars == <<data_dir, snapshot_dir, rollback_pc, integrity, record_queue,
                   workers, dequeued, total_updates, reruns>>

vars == <<validator, all_results, pc, error, report, writable, report_file,
          returned, peer_results, peer_pc, peer_report, main_vars, pool_vars,
          helper_vars, rollback_vars>>

----------------------------------------------------------------------------
(* Bounds of the explored inputs *)

\* free entries (drawn from FreeEntries, in any order) in a result set
MaxFree == 2
\* PASS entries of non-critical probes added to a result set
MaxPass == 9
\* WARN entries of non-critical probes added to a result set (none or all)
MaxWarn == 2
\* PASS entries added to each result set of a compared pair
MaxPeerPass == 3

----------------------------------------------------------------------------
(* Vocabulary *)

Validators == {"full", "simple"}

\* the outcome strings the probes record
Outcomes == {"PASS", "FAIL", "PARTIAL", "WARN", "SKIP", "ERROR"}

\* the keys main gives all_results, in insertion order
Categories(v) ==
    IF v = "full"
    THEN <<"Security Boundary", "Resource Limits", "Output Capture",
           "Process Lifecycle", "Error Handling", "gRPC Integration">>
    ELSE <<"Security Boundary", "Resource Limits", "Output Capture",
           "Process Lifecycle", "Error Handling", "Integration">>

\* critical_tests of generate_report
critical_tests(v) ==
    IF v = "full"
    THEN {"Low Integrity Level", "Working Directory Enforcement",
          "Memory Limit (100MB)", "Execution Timeout (30s)"}
    ELSE {"Low Integrity Level", "Working Directory Enforcement",
          "Memory Limit (100MB)", "Execution Timeout (30s)",
          "Service Availability"}

NoReport == [absent |-> TRUE]

----------------------------------------------------------------------------
(* generate_report: statistics *)

\* "for results in all_results.values() for entry in results": every entry,
\* categories in insertion order, entries in list order
RECURSIVE Flatten(_)
Flatten(results) ==
    IF results = <<>> THEN <<>>
    ELSE Head(results)[2] \o Flatten(Tail(results))

\* sum(len(results) for results in all_results.values())
RECURSIVE total_tests(_)
total_tests(results) ==
    IF results = <<>> THEN 0
    ELSE Len(Head(results)[2]) + total_tests(Tail(results))

\* sum(1 for results in ... for _, status in results if status == s)
CountStatus(results, s) ==
    LET entries == Flatten(results)
    IN  Cardinality({i \in DOMAIN entries : entries[i][2] = s})

\* pass_rate >= bar
AtLeast(rate, bar) == rate.num >= bar * rate.den

\* PassRate with the operands of the division swapped
PassRateSwapped(passed, total) ==
    IF total > 0 THEN [num |-> total * 100, den |-> passed]
    ELSE [num |-> 0, den |-> 1]

\* passed / total_tests * 100 if total_tests > 0 else 0, as an exact quotient
PassRate(passed, total) ==
    IF total > 0 THEN [num |-> passed * 100, den |-> total]
    ELSE [num |-> 0, den |-> 1]

\* the "statistics" object of report_data; the full validator counts SKIP and
\* has no counter for ERROR, the simple validator counts ERROR and has no
\* counter for SKIP
Statistics(v, results) ==
    IF v = "full"
    THEN [total     |-> total_tests(results),
          passed    |-> CountStatus(results, "PASS"),
          failed    |-> CountStatus(results, "FAIL"),
          partial   |-> CountStatus(results, "PARTIAL"),
          warnings  |-> CountStatus(results, "WARN"),
          skipped   |-> CountStatus(results, "SKIP"),
          pass_rate |-> PassRate(CountStatus(results, "PASS"), total_tests(results))]
    ELSE [total     |-> total_tests(results),
          passed    |-> CountStatus(results, "PASS"),
          failed    |-> CountStatus(results, "FAIL"),
          partial   |-> CountStatus(results, "PARTIAL"),
          warnings  |-> CountStatus(results, "WARN"),
          errors    |-> CountStatus(results, "ERROR"),
          pass_rate |-> PassRate(CountStatus(results, "PASS"), total_tests(results))]

----------------------------------------------------------------------------
(* generate_report: security assessment and production readiness *)

\* the statuses that make a critical probe a critical failure
CriticalStatuses(v) == IF v = "full" THEN {"FAIL"} ELSE {"FAIL", "ERROR"}

\* critical_failures: the names appended by the loop over all_results
CriticalFailures(v, results) ==
    LET entries == Flatten(results)
        IsCriticalFailure(e) == e[1] \in critical_tests(v) /\ e[2] \in CriticalStatuses(v)
        hits == SelectSeq(entries, IsCriticalFailure)
    IN  [i \in DOMAIN hits |-> hits[i][1]]

\* the simple validator's "warned > 3"
NoiseThreshold == 3

\* Severity with the "failed > 0" test placed before the critical-failure test
SeverityFailedFirst(v, critical_failures, failed, warned) ==
    IF failed > 0 THEN "MEDIUM"
    ELSE IF critical_failures # <<>> THEN "HIGH"
    ELSE IF v = "simple" /\ warned > NoiseThreshold THEN "MEDIUM"
    ELSE "LOW"

\* severity: the if / elif chain after the critical-failure loop
Severity(v, critical_failures, failed, warned) ==
    IF critical_failures # <<>> THEN "HIGH"
    ELSE IF failed > 0 THEN "MEDIUM"
    ELSE IF v = "simple" /\ warned > NoiseThreshold THEN "MEDIUM"
    ELSE "LOW"

\* the two pass-rate bars of the readiness rule
HighBar(v) == IF v = "full" THEN 90 ELSE 70
MidBar(v)  == IF v = "full" THEN 75 ELSE 60

\* Readiness whose second tier tolerates no critical failure (< 1 for <= 1)
ReadinessNoTolerance(v, pass_rate, critical_failures) ==
    IF AtLeast(pass_rate, HighBar(v)) /\ critical_failures = <<>> THEN "YES"
    ELSE IF AtLeast(pass_rate, MidBar(v)) /\ Len(critical_failures) < 1 THEN "CONDITIONAL"
    ELSE "NO"

\* Readiness whose first tier joins its two tests with "or"
ReadinessEitherTest(v, pass_rate, critical_failures) ==
    IF AtLeast(pass_rate, HighBar(v)) \/ critical_failures = <<>> THEN "YES"
    ELSE IF AtLeast(pass_rate, MidBar(v)) /\ Len(critical_failures) <= 1 THEN "CONDITIONAL"
    ELSE "NO"

\* readiness: the if / elif / else on pass_rate and critical_failures
Readiness(v, pass_rate, critical_failures) ==
    IF AtLeast(pass_rate, HighBar(v)) /\ critical_failures = <<>> THEN "YES"
    ELSE IF AtLeast(pass_rate, MidBar(v)) /\ Len(critical_failures) <= 1 THEN "CONDITIONAL"
    ELSE "NO"

\* justification: the sentence assigned in the branch that set readiness
Justification(v, readiness) ==
    IF v = "full"
    THEN CASE readiness = "YES" ->
                "All critical security controls are functioning properly. System meets production security requirements."
           [] readiness = "CONDITIONAL" ->
                "Most security controls functioning, but minor issues need resolution before production deployment."
           [] OTHER ->
                "Critical security controls are not functioning properly. System requires fixes before production deployment."
    ELSE CASE readiness = "YES" ->
                "Core security controls are functioning. System meets minimum production security requirements."
           [] readiness = "CONDITIONAL" ->
                "Most security controls functioning, but some issues need attention for optimal security."
           [] OTHER ->
                "Critical security controls need improvement before production deployment."

\* Verdict whose first readiness tier tests "failed == 0" for "not critical_failures"
VerdictFailedBlocksYes(v, results) ==
    LET critical_failures == CriticalFailures(v, results)
        pass_rate == PassRate(CountStatus(results, "PASS"), total_tests(results))
        failed == CountStatus(results, "FAIL")
        readiness ==
            IF AtLeast(pass_rate, HighBar(v)) /\ failed = 0 THEN "YES"
            ELSE IF AtLeast(pass_rate, MidBar(v)) /\ Len(critical_failures) <= 1
                 THEN "CONDITIONAL"
            ELSE "NO"
    IN  [critical_failures |-> critical_failures,
         severity          |-> Severity(v, critical_failures, failed,
                                        CountStatus(results, "WARN")),
         production_ready  |-> readiness,
         justification     |-> Justification(v, readiness)]

\* Verdict whose justification is picked by the severity instead of the
\* readiness branch
VerdictJustifiesBySeverity(v, results) ==
    LET critical_failures == CriticalFailures(v, results)
        pass_rate == PassRate(CountStatus(results, "PASS"), total_tests(results))
        readiness == Readiness(v, pass_rate, critical_failures)
        severity == Severity(v, critical_failures, CountStatus(results, "FAIL"),
                             CountStatus(results, "WARN"))
    IN  [critical_failures |-> critical_failures,
         severity          |-> severity,
         production_ready  |-> readiness,
         justification     |-> Justification(v, IF severity = "LOW" THEN "YES"
                                                 ELSE readiness)]

\* the assessment generate_report derives from all_results
Verdict(v, results) ==
    LET critical_failures == CriticalFailures(v, results)
        pass_rate == PassRate(CountStatus(results, "PASS"), total_tests(results))
        readiness == Readiness(v, pass_rate, critical_failures)
    IN  [critical_failures |-> critical_failures,
         severity          |-> Severity(v, critical_failures,
                                        CountStatus(results, "FAIL"),
                                        CountStatus(results, "WARN")),
         production_ready  |-> readiness,
         justification     |-> Justification(v, readiness)]

\* report_data (the timestamp, which no rule reads, is left out)
ReportData(v, results) ==
    LET verdict == Verdict(v, results)
    IN  [statistics        |-> Statistics(v, results),
         results           |-> results,
         critical_failures |-> verdict.critical_failures,
         production_ready  |-> verdict.production_ready,
         justification     |-> verdict.justification,
         severity          |-> verdict.severity]

\* return readiness == "YES" (full); return readiness in ["YES", "CONDITIONAL"] (simple)
ReturnValue(v, readiness) ==
    IF v = "full"
    THEN (IF readiness = "YES" THEN "True" ELSE "False")
    ELSE (IF readiness \in {"YES", "CONDITIONAL"} THEN "True" ELSE "False")

\* print(f"Passed: {passed} ({passed/total_tests*100:.1f}%)"): the division
\* that precedes every rule raises ZeroDivisionError on an empty result set
PrintRaises(results) == total_tests(results) = 0

\* one call of generate_report: what it leaves behind.  The report file is
\* opened after the verdict is built and printed; the full validator lets
\* the failure to open it propagate, the simple validator catches it
Call(v, results, can_write) ==
    IF PrintRaises(results)
    THEN [pc |-> "raised", error |-> "ZeroDivisionError",
          report |-> NoReport, report_file |-> "absent", returned |-> "none"]
    ELSE IF v = "full" /\ ~can_write
    THEN [pc |-> "raised", error |-> "OSError",
          report |-> ReportData(v, results), report_file |-> "absent",
          returned |-> "none"]
    ELSE [pc |-> "returned", error |-> "none",
          report |-> ReportData(v, results),
          report_file |-> IF can_write THEN "written" ELSE "absent",
          returned |-> ReturnValue(v, Verdict(v, results).production_ready)]

----------------------------------------------------------------------------
(* The result sets explored *)

\* the entries a result set is free to hold: a probe critical in both
\* validators and a probe critical in neither, each with any outcome, and
\* the failure of a probe critical in the simple validator only
FreeEntries ==
    {<<n, s>> : n \in {"Low Integrity Level", "Process Count Limit (5)"}, s \in Outcomes}
        \cup {<<"Service Availability", "FAIL">>}

\* the Resource Limits list: empty, or the failure of a second probe that is
\* critical in both validators
LimitsLists == {<<>>, <<<<"Execution Timeout (30s)", "FAIL">>>>}

FreeLists == UNION {[1..n -> FreeEntries] : n \in 0..MaxFree}

\* probes that are critical in neither validator
PadNames == <<"Parent directory traversal", "Direct path outside sandbox",
              "Basic Output Capture", "Large Output Handling",
              "Invalid Command Handling", "Error Sanitization">>

PadName(i) == PadNames[((i - 1) % Len(PadNames)) + 1]

Pad(k, status) == [i \in 1..k |-> <<PadName(i), status>>]

\* an all_results dict with the six categories of the validator: the free
\* entries, the Resource Limits list, p PASS entries and w WARN entries, the
\* other lists empty
Build(v, free, limits, p, w) ==
    LET c == Categories(v)
    IN  << <<c[1], free>>, <<c[2], limits>>, <<c[3], <<>> >>,
           <<c[4], Pad(p, "PASS")>>, <<c[5], Pad(w, "WARN")>>, <<c[6], <<>> >> >>

ResultSets(v) ==
    {Build(v, free, limits, p, w) :
        free \in FreeLists, limits \in LimitsLists, p \in 0..MaxPass, w \in {0, MaxWarn}}

\* the result sets of a compared pair: one free entry, the Resource Limits
\* list and p PASS entries
PairSets(v) ==
    {Build(v, <<e>>, limits, p, 0) :
        e \in FreeEntries, limits \in LimitsLists, p \in 0..MaxPeerPass}

----------------------------------------------------------------------------
(* Behaviour *)

\* no helper call on its own is modelled
HelperIdle ==
    /\ invocation = <<>>
    /\ helper_result = <<>>

\* no run of test_rollback.py is modelled
RollbackIdle ==
    /\ data_dir = <<>>
    /\ snapshot_dir = <<>>
    /\ rollback_pc = "off"
    /\ integrity = <<>>
    /\ record_queue = <<>>
    /\ workers = <<>>
    /\ dequeued = <<>>
    /\ total_updates = <<>>
    /\ reruns = 0

\* no probe has run
NoMain ==
    /\ step = 0
    /\ stub = FALSE
    /\ faults = 0
    /\ test_results = <<>>
    /\ trace = <<>>
    /\ exit_code = <<>>

\* no thread pool has been made
NoPool ==
    /\ futures = <<>>
    /\ pool_results = <<>>
    /\ pool_pc = "off"
    /\ pool_entry = <<>>

\* neither validator is running
NoValidator ==
    /\ validator = "full"
    /\ all_results = <<>>
    /\ pc = "off"
    /\ error = "none"
    /\ report = NoReport
    /\ writable = TRUE
    /\ report_file = "absent"
    /\ returned = "none"
    /\ peer_results = <<>>
    /\ peer_pc = "off"
    /\ peer_report = NoReport

\* no run of main is modelled: generate_report is called on its own
MainIdle == NoMain /\ HelperIdle /\ RollbackIdle

\* no thread pool is modelled
PoolIdle == NoPool /\ HelperIdle /\ RollbackIdle

Init ==
    /\ MainIdle
    /\ PoolIdle
    /\ validator \in Validators
    /\ all_results \in ResultSets(validator)
    /\ pc = "call"
    /\ error = "none"
    /\ report = NoReport
    /\ writable \in BOOLEAN
    /\ report_file = "absent"
    /\ returned = "none"
    /\ peer_results = <<>>
    /\ peer_pc = "off"
    /\ peer_report = NoReport

\* is_production_ready = validator.generate_report(all_results)
GenerateReport ==
    /\ pc = "call"
    /\ \E out \in {Call(validator, all_results, writable)} :
           /\ pc' = out.pc
           /\ error' = out.error
           /\ report' = out.report
           /\ report_file' = out.report_file
           /\ returned' = out.returned
    /\ UNCHANGED <<validator, all_results, writable, peer_results, peer_pc, peer_report,
                   main_vars, pool_vars, helper_vars, rollback_vars>>

Next == GenerateReport

Spec == Init /\ [][Next]_vars

\* two runs of one validator, each with its own result set, where the report
\* file can be written
InitPair ==
    /\ MainIdle
    /\ PoolIdle
    /\ validator \in Validators
    /\ all_results \in PairSets(validator)
    /\ peer_results \in PairSets(validator)
    /\ pc = "call"
    /\ error = "none"
    /\ report = NoReport
    /\ writable = TRUE
    /\ report_file = "absent"
    /\ returned = "none"
    /\ peer_pc = "call"
    /\ peer_report = NoReport

\* generate_report of the second run
GenerateReportPeer ==
    /\ peer_pc = "call"
    /\ \E out \in {Call(validator, peer_results, writable)} :
           /\ peer_pc' = out.pc
           /\ peer_report' = out.report
    /\ UNCHANGED <<validator, all_results, pc, error, report, writable, report_file,
                   returned, peer_results, main_vars, pool_vars, helper_vars,
                   rollback_vars>>

NextPair == GenerateReport \/ GenerateReportPeer

SpecPair == InitPair /\ [][NextPair]_vars

----------------------------------------------------------------------------
(* Properties of generate_report *)

\* the entries generate_report was given
Entries == Flatten(all_results)

\* the critical probes among the entries whose status is one of statuses
CriticalWith(statuses) ==
    {Entries[i][1] : i \in {j \in DOMAIN Entries :
                              /\ Entries[j][1] \in critical_tests(validator)
                              /\ Entries[j][2] \in statuses}}

\* the per-outcome counters a statistics object carries
CounterKeys(stats) == DOMAIN stats \ {"total", "pass_rate"}

RECURSIVE SumOver(_, _)
SumOver(f, keys) ==
    IF keys = {} THEN 0
    ELSE LET k == CHOOSE x \in keys : TRUE
         IN  f[k] + SumOver(f, keys \ {k})

\* C1: in every report the total equals the sum of the per-outcome counters
\* (passed, failed, partial, warned, skipped, errored): every recorded entry
\* is counted by exactly one of them.
C1_TotalIsSumOfCounters ==
    pc = "returned" =>
        report.statistics.total
            = SumOver(report.statistics, CounterKeys(report.statistics))

\* C2: whenever the reported critical-failure list is non-empty the reported
\* severity is HIGH, whatever the pass rate and the other counts are.
C2_CriticalFailureForcesHigh ==
    (pc = "returned" /\ report.critical_failures # <<>>) => report.severity = "HIGH"

\* a critical failure is reported although the pass rate reaches 90%
C2_Witness ==
    /\ pc = "returned"
    /\ report.critical_failures # <<>>
    /\ AtLeast(report.statistics.pass_rate, 90)
    /\ report.severity = "HIGH"

\* the result set of end-to-end scenario 1: ten entries, nine PASS and one
\* FAIL, the failing probe a critical probe
Scenario1 ==
    /\ pc = "returned"
    /\ Len(Entries) = 10
    /\ Cardinality({i \in DOMAIN Entries : Entries[i][2] = "PASS"}) = 9
    /\ Cardinality({i \in DOMAIN Entries : Entries[i][2] = "FAIL"}) = 1
    /\ CriticalWith({"FAIL"}) # {}

\* C3 (as claimed): nine PASS and one critical FAIL out of ten give severity
\* HIGH and readiness NO.
C3_Scenario1ReadinessNo ==
    Scenario1 => (report.severity = "HIGH" /\ report.production_ready = "NO")

\* C3 (amended): nine PASS and one critical FAIL out of ten give severity
\* HIGH and readiness CONDITIONAL: the 90% pass rate clears the second bar,
\* which tolerates one critical failure; the verdict is never YES.
C3_Scenario1ReadinessConditional ==
    Scenario1 => (report.severity = "HIGH" /\ report.production_ready = "CONDITIONAL")

\* scenario 1 has been reported by the full validator
C3_Witness == Scenario1 /\ validator = "full" /\ report.statistics.passed = 9

\* C4: when a critical probe is recorded FAIL or ERROR the readiness verdict
\* is never YES.
C4_CriticalFailOrErrorBlocksYes ==
    (pc = "returned" /\ CriticalWith({"FAIL", "ERROR"}) # {})
        => report.production_ready # "YES"

\* C5: the reported critical failures are exactly the critical probes whose
\* recorded outcome is FAIL or ERROR.
C5_CriticalFailuresExact ==
    pc = "returned" =>
        {report.critical_failures[i] : i \in DOMAIN report.critical_failures}
            = CriticalWith({"FAIL", "ERROR"})

\* the readiness the two-tier rule gives for passed out of total entries and
\* n critical failures, under the bars highBar and midBar
TwoTier(passed, total, n, highBar, midBar) ==
    IF passed * 100 >= highBar * total /\ n = 0 THEN "YES"
    ELSE IF passed * 100 >= midBar * total /\ n <= 1 THEN "CONDITIONAL"
    ELSE "NO"

\* C6: for every result set with total > 0 the reported readiness is the
\* two-tier rule applied in order to the reported pass rate and critical
\* failures: bars 90 / 75 in security_validation.py, 70 / 60 in
\* security_validation_simple.py.
C6_ReadinessTwoTierRule ==
    (pc = "returned" /\ report.statistics.total > 0) =>
        report.production_ready
            = TwoTier(report.statistics.passed, report.statistics.total,
                      Len(report.critical_failures),
                      IF validator = "full" THEN 90 ELSE 70,
                      IF validator = "full" THEN 75 ELSE 60)

\* the pass rate clears the second bar and two critical failures give NO
C6_Witness ==
    /\ pc = "returned"
    /\ validator = "full"
    /\ report.statistics.passed * 100 >= 75 * report.statistics.total
    /\ Len(report.critical_failures) = 2
    /\ report.production_ready = "NO"

\* C7: severity is HIGH if there is a critical failure; else MEDIUM if
\* failed > 0 or the number of WARN outcomes exceeds the noise threshold;
\* else LOW.
C7_SeverityOrderedRule ==
    pc = "returned" =>
        report.severity
            = IF report.critical_failures # <<>> THEN "HIGH"
              ELSE IF \/ report.statistics.failed > 0
                      \/ report.statistics.warnings > NoiseThreshold THEN "MEDIUM"
              ELSE "LOW"

\* both runs of the pair have reported
BothReported == pc = "returned" /\ peer_pc = "returned"

\* the two reports carry the same pass rate and as many critical failures
SameRateAndCount ==
    /\ report.statistics.passed * peer_report.statistics.total
         = peer_report.statistics.passed * report.statistics.total
    /\ Len(report.critical_failures) = Len(peer_report.critical_failures)

\* C8: two result sets of one validator with equal pass rate and equal number
\* of critical failures receive the same readiness, whatever the probes'
\* identity and the other outcome counts are.
C8_ReadinessDependsOnRateAndCount ==
    (BothReported /\ SameRateAndCount)
        => report.production_ready = peer_report.production_ready

\* two runs that differ in their entries and in their FAIL counts, with the
\* same pass rate and no critical failure, both reported YES
C8_Witness ==
    /\ BothReported
    /\ SameRateAndCount
    /\ report.statistics.failed # peer_report.statistics.failed
    /\ report.statistics.total = peer_report.statistics.total
    /\ report.production_ready = "YES"

C10_EmptyResultSetConfigurationError ==
    (pc # "call" /\ Len(Entries) = 0) =>
        /\ pc = "raised"
        /\ error = "ConfigurationError"
        /\ report = NoReport
        /\ returned = "none"


----------------------------------------------------------------------------
(* The invocation helpers *)

\* timeout=35 of subprocess.run in execute_test, execute_python_test and
\* execute_via_service
HarnessTimeout == 35
\* if elapsed < 33: the margin of the "Execution Timeout (30s)" judge
ElapsedMargin == 33
\* the 30 seconds after which the target is expected to stop a command
TargetLimit == 30

\* What one subprocess.run (or one stub.Execute) does is a record
\*   [event, found, found2, exit_code, elapsed, aux]
\* event:      "completed", "TimeoutExpired", "Exception"; "OSError" when the
\*             script file could not be written, so that nothing was run;
\*             "none" for a probe that runs nothing
\* found:      the captured output holds the text the probe's judge looks for
\* found2:     it holds the second text the judge looks for
\* exit_code:  the return code of the command
\* elapsed:    the seconds the probe measured around the call (0: not measured)
\* aux:        what the probe observes beside the result (the expected file
\*             exists; the process count changed by at most one)

\* a helper's return value when it returns None
None == [kind |-> "None", found |-> FALSE, found2 |-> FALSE, exit_code |-> 0]

\* the dict a helper returns, reduced to what the judges read in it
Result(f, g, code) ==
    [kind |-> "dict", found |-> f, found2 |-> g, exit_code |-> code]

\* except subprocess.TimeoutExpired: stdout '' and stderr 'Process timeout'
\* (output 'Process timeout' in the simple validator), exit_code -1; it holds
\* none of the texts the judges look for
TimeoutResult == Result(FALSE, FALSE, -1)

\* a gRPC call that raised
Raised == [kind |-> "raised", found |-> FALSE, found2 |-> FALSE, exit_code |-> 0]

execute_test(run) ==
    IF run.event = "completed" THEN Result(run.found, run.found2, run.exit_code)
    ELSE IF run.event = "TimeoutExpired" THEN TimeoutResult
    ELSE None

\* no handler of its own for TimeoutExpired: except Exception returns None
execute_python_test(run) ==
    IF run.event = "completed" THEN Result(run.found, run.found2, run.exit_code)
    ELSE None

execute_via_service(run) ==
    IF run.event = "completed" THEN Result(run.found, run.found2, run.exit_code)
    ELSE IF run.event = "TimeoutExpired" THEN TimeoutResult
    ELSE None

\* response = self.stub.Execute(request), inside the probe's own try
Execute(run) ==
    IF run.event = "completed" THEN Result(run.found, run.found2, run.exit_code)
    ELSE Raised

Invoke(helper, run) ==
    CASE helper = "execute_test"        -> execute_test(run)
      [] helper = "execute_python_test" -> execute_python_test(run)
      [] helper = "execute_via_service" -> execute_via_service(run)
      [] helper = "stub"                -> Execute(run)
      [] OTHER                          -> None

----------------------------------------------------------------------------
(* The probes, in the order the category functions run them *)

\* category: the key main stores the category's list under
\* name:     the name the probe records its outcome under
\* script:   the probe writes a script file into the sandbox before it invokes
\* helper:   what the probe invokes the target with ("none": nothing; "gate":
\*           the check of self.stub that opens test_grpc_integration; "pool":
\*           the thread pool of the concurrent probe)
\* reads:    the observations the probe's judge reads
Probe(category, name, script, helper, reads) ==
    [category |-> category, name |-> name, script |-> script, helper |-> helper,
     reads |-> reads]

\* security_validation.py
ProbesFull ==
    << Probe("Security Boundary", "Low Integrity Level", TRUE, "execute_test", {"found"}),
       Probe("Security Boundary", "Parent directory traversal", TRUE, "execute_test", {"found"}),
       Probe("Security Boundary", "Direct path outside sandbox", TRUE, "execute_test", {"found"}),
       Probe("Security Boundary", "UNC path escape", TRUE, "execute_test", {"found"}),
       Probe("Security Boundary", "Working Directory Enforcement", TRUE, "execute_test",
             {"found", "aux"}),
       Probe("Resource Limits", "Memory Limit (100MB)", TRUE, "execute_python_test",
             {"found", "exit_code"}),
       Probe("Resource Limits", "Process Count Limit (5)", TRUE, "execute_test", {"found"}),
       Probe("Resource Limits", "Execution Timeout (30s)", TRUE, "execute_test", {"elapsed"}),
       Probe("Output Capture", "Basic Output Capture", TRUE, "execute_test",
             {"found", "found2"}),
       Probe("Output Capture", "Large Output Handling", TRUE, "execute_python_test",
             {"found", "found2"}),
       Probe("Process Lifecycle", "Normal Termination Cleanup", TRUE, "execute_test", {"aux"}),
       Probe("Process Lifecycle", "Timeout Cleanup", TRUE, "execute_test", {"elapsed", "aux"}),
       Probe("Process Lifecycle", "Job Object Cleanup", FALSE, "none", {}),
       Probe("Error Handling", "Invalid Command Handling", FALSE, "stub", {"exit_code"}),
       Probe("Error Handling", "Error Sanitization", TRUE, "execute_test", {"found", "found2"}),
       Probe("gRPC Integration", "gRPC Integration", FALSE, "gate", {}),
       Probe("gRPC Integration", "Basic gRPC Execution", FALSE, "stub", {"found"}),
       Probe("gRPC Integration", "Concurrent Requests", FALSE, "pool", {}) >>

\* security_validation_simple.py
ProbesSimple ==
    << Probe("Security Boundary", "Low Integrity Level", TRUE, "execute_via_service", {"found"}),
       Probe("Security Boundary", "Parent directory traversal", FALSE, "execute_via_service",
             {"found", "exit_code"}),
       Probe("Security Boundary", "Direct path outside sandbox", FALSE, "execute_via_service",
             {"found", "exit_code"}),
       Probe("Security Boundary", "System directory access", FALSE, "execute_via_service",
             {"found", "exit_code"}),
       Probe("Security Boundary", "Working Directory Enforcement", TRUE, "execute_via_service",
             {"found", "aux"}),
       Probe("Resource Limits", "Memory Limit (100MB)", TRUE, "execute_via_service",
             {"found", "found2", "exit_code"}),
       Probe("Resource Limits", "Execution Timeout (30s)", TRUE, "execute_via_service",
             {"elapsed"}),
       Probe("Resource Limits", "Process Count Limit (5)", TRUE, "execute_via_service",
             {"found"}),
       Probe("Output Capture", "Basic Output Capture", TRUE, "execute_via_service", {"found"}),
       Probe("Output Capture", "Large Output Handling", TRUE, "execute_via_service",
             {"found", "found2"}),
       Probe("Process Lifecycle", "Normal Termination", TRUE, "execute_via_service",
             {"exit_code"}),
       Probe("Process Lifecycle", "Job Object Management", TRUE, "execute_via_service", {}),
       Probe("Process Lifecycle", "Process Watchdog", FALSE, "none", {}),
       Probe("Error Handling", "Invalid Command Handling", FALSE, "execute_via_service",
             {"exit_code"}),
       Probe("Error Handling", "Resource Exceeded Handling", TRUE, "execute_via_service",
             {"found"}),
       Probe("Error Handling", "Error Sanitization", TRUE, "execute_via_service", {"found"}),
       Probe("Integration", "Service Availability", FALSE, "execute_via_service",
             {"exit_code"}),
       Probe("Integration", "Concurrent Execution", FALSE, "pool", {}) >>

Probes(v) == IF v = "full" THEN ProbesFull ELSE ProbesSimple

----------------------------------------------------------------------------
(* The judges *)

\* a probe path that appends nothing to test_results
NoEntry == "none"

\* "if result": a dict with keys is true, None is false
Truthy(result) == result.kind = "dict"

\* security_validation.py: the outcome each probe appends, given the helper's
\* return value, the elapsed time and the side observation.  found / found2 are
\*   Low Integrity Level            "PASS: Write blocked" in stdout
\*   the three escape probes        "PASS:" in stdout
\*   Working Directory Enforcement  the sandbox path in stdout; aux: the file exists
\*   Memory Limit (100MB)           "PASS:" in stdout
\*   Process Count Limit (5)        more than 5 occurrences counted in stdout
\*   Basic Output Capture           stdout_ok / stderr_ok
\*   Large Output Handling          at least 900 lines / END_MARKER in stderr
\*   Error Sanitization             found_sensitive / "[USER_PATH]" in stderr
\*   Basic gRPC Execution           "Hello from gRPC" in response.stdout
JudgeFull(name, result, elapsed, aux, has_stub) ==
    CASE name \in {"Low Integrity Level", "Parent directory traversal",
                   "Direct path outside sandbox", "UNC path escape"} ->
            IF Truthy(result) /\ result.found THEN "PASS" ELSE "FAIL"
      [] name = "Working Directory Enforcement" ->
            IF Truthy(result) /\ result.found
            THEN (IF aux THEN "PASS" ELSE "PARTIAL")
            ELSE "FAIL"
      [] name = "Memory Limit (100MB)" ->
            IF Truthy(result) /\ (result.exit_code = 0 \/ result.found)
            THEN "PASS" ELSE "FAIL"
      [] name = "Process Count Limit (5)" ->
            IF Truthy(result)
            THEN (IF ~result.found THEN "PASS" ELSE "FAIL")
            ELSE "ERROR"
      [] name = "Execution Timeout (30s)" ->
            IF elapsed < ElapsedMargin THEN "PASS" ELSE "FAIL"
      [] name = "Basic Output Capture" ->
            IF Truthy(result)
            THEN (IF result.found /\ result.found2 THEN "PASS"
                  ELSE IF result.found THEN "PARTIAL"
                  ELSE IF result.found2 THEN "PARTIAL"
                  ELSE "FAIL")
            ELSE NoEntry
      [] name = "Large Output Handling" ->
            IF Truthy(result)
            THEN (IF result.found /\ result.found2 THEN "PASS" ELSE "PARTIAL")
            ELSE NoEntry
      [] name = "Normal Termination Cleanup" ->
            IF aux THEN "PASS" ELSE "WARN"
      [] name = "Timeout Cleanup" ->
            IF elapsed < HarnessTimeout /\ aux THEN "PASS" ELSE "WARN"
      [] name = "Job Object Cleanup" -> "PASS"
      [] name = "Invalid Command Handling" ->
            IF has_stub
            THEN (IF result.kind = "raised" THEN "PASS"
                  ELSE IF result.exit_code # 0 THEN "PASS" ELSE "FAIL")
            ELSE "SKIP"
      [] name = "Error Sanitization" ->
            IF Truthy(result)
            THEN (IF ~result.found \/ result.found2 THEN "PASS" ELSE "WARN")
            ELSE NoEntry
      [] name = "Basic gRPC Execution" ->
            IF result.kind = "raised" THEN "ERROR"
            ELSE IF result.found THEN "PASS" ELSE "FAIL"
      [] OTHER -> NoEntry

\* security_validation_simple.py.  found / found2 are
\*   Low Integrity Level            "PASS: Write blocked" in output
\*   the three escape probes        "Access is denied" or "cannot find" in output
\*   Working Directory Enforcement  the sandbox path in output; aux: the file exists
\*   Memory Limit (100MB)           "PASS:" in output / "MemoryError" in output
\*   Process Count Limit (5)        more than 6 "completed" in output
\*   Basic Output Capture           stdout_ok
\*   Large Output Handling          at least 90 lines / at least one line
\*   Resource Exceeded Handling     "PASS:" in output
\*   Error Sanitization             "JAMEYMILNER" or "Administrator" in output
JudgeSimple(name, result, elapsed, aux) ==
    CASE name = "Low Integrity Level" ->
            IF Truthy(result) /\ result.found THEN "PASS" ELSE "PARTIAL"
      [] name \in {"Parent directory traversal", "Direct path outside sandbox",
                   "System directory access"} ->
            IF Truthy(result) /\ result.exit_code # 0 THEN "PASS"
            ELSE IF Truthy(result) /\ result.found THEN "PASS"
            ELSE "WARN"
      [] name = "Working Directory Enforcement" ->
            IF Truthy(result) /\ result.found
            THEN (IF aux THEN "PASS" ELSE "PARTIAL")
            ELSE "WARN"
      [] name = "Memory Limit (100MB)" ->
            IF Truthy(result) /\ (result.exit_code = 0 \/ result.found) THEN "PASS"
            ELSE IF Truthy(result) /\ result.found2 THEN "PASS"
            ELSE "WARN"
      [] name = "Execution Timeout (30s)" ->
            IF elapsed < ElapsedMargin THEN "PASS" ELSE "WARN"
      [] name = "Process Count Limit (5)" ->
            IF Truthy(result)
            THEN (IF ~result.found THEN "PASS" ELSE "WARN")
            ELSE NoEntry
      [] name = "Basic Output Capture" ->
            IF Truthy(result)
            THEN (IF result.found THEN "PASS" ELSE "PARTIAL")
            ELSE NoEntry
      [] name = "Large Output Handling" ->
            IF Truthy(result)
            THEN (IF result.found THEN "PASS"
                  ELSE IF result.found2 THEN "PARTIAL"
                  ELSE "WARN")
            ELSE NoEntry
      [] name = "Normal Termination" ->
            IF Truthy(result) /\ result.exit_code = 0 THEN "PASS" ELSE "WARN"
      [] name \in {"Job Object Management", "Process Watchdog"} -> "PASS"
      [] name = "Invalid Command Handling" ->
            IF Truthy(result) /\ result.exit_code # 0 THEN "PASS" ELSE "WARN"
      [] name = "Resource Exceeded Handling" ->
            IF Truthy(result) /\ result.found THEN "PASS" ELSE "WARN"
      [] name = "Error Sanitization" ->
            IF Truthy(result)
            THEN (IF result.found THEN "WARN" ELSE "PASS")
            ELSE NoEntry
      [] name = "Service Availability" ->
            IF Truthy(result) /\ result.exit_code = 0 THEN "PASS" ELSE "FAIL"
      [] OTHER -> NoEntry

Judge(v, name, result, elapsed, aux, has_stub) ==
    IF v = "full"
    THEN JudgeFull(name, result, elapsed, aux, has_stub)
    ELSE JudgeSimple(name, result, elapsed, aux)

----------------------------------------------------------------------------
(* The concurrent probe: ThreadPoolExecutor and executor.map *)

\* range(5) requests on max_workers=5 (full); range(3) on max_workers=3 (simple)
NumRequests(v) == IF v = "full" THEN 5 ELSE 3

max_workers(v) == IF v = "full" THEN 5 ELSE 3

Requests(v) == 1..NumRequests(v)

ConcurrentName(v) == IF v = "full" THEN "Concurrent Requests" ELSE "Concurrent Execution"

\* what a request function can end with: make_request catches every exception
\* and returns False; make_concurrent_request lets the failure to write its
\* script file propagate
RequestEnds(v) == IF v = "full" THEN {"True", "False"} ELSE {"True", "False", "raised"}

Finished == {"True", "False", "raised", "CANCELLED"}

\* a list with the value yielded first at the tail
CollectResultReversed(rs, value) == <<value>> \o rs

\* list(...) appends the values in the order the iterator yields them
CollectResult(rs, value) == Append(rs, value)

\* the iterator of executor.map was closed by an exception: it cancels the
\* futures it has not yielded, which succeeds for those not yet running
CancelAfter(fs, k) ==
    [i \in DOMAIN fs |-> IF i > k /\ fs[i] = "PENDING" THEN "CANCELLED" ELSE fs[i]]

\* if all(results): PASS, else PARTIAL
ConcurrentOutcome(rs) ==
    IF \A i \in DOMAIN rs : rs[i] THEN "PASS" ELSE "PARTIAL"

\* the concurrent probe is entered: executor.map has submitted every request
InitPool ==
    /\ MainIdle
    /\ validator \in Validators
    /\ all_results = <<>>
    /\ pc = "probe"
    /\ error = "none"
    /\ report = NoReport
    /\ writable = TRUE
    /\ report_file = "absent"
    /\ returned = "none"
    /\ peer_results = <<>>
    /\ peer_pc = "off"
    /\ peer_report = NoReport
    /\ futures = [i \in Requests(validator) |-> "PENDING"]
    /\ pool_results = <<>>
    /\ pool_pc = "collect"
    /\ pool_entry = <<>>

pool_frame == <<validator, all_results, pc, error, report, writable, report_file,
                returned, peer_results, peer_pc, peer_report, main_vars, helper_vars,
                rollback_vars>>

\* a worker thread takes request i from the queue and starts running it
WorkerStart(i) ==
    /\ pool_pc # "off"
    /\ futures[i] = "PENDING"
    /\ Cardinality({j \in DOMAIN futures : futures[j] = "RUNNING"}) < max_workers(validator)
    /\ futures' = [futures EXCEPT ![i] = "RUNNING"]
    /\ UNCHANGED <<pool_results, pool_pc, pool_entry, pool_frame>>

\* request i returns or raises; its future keeps the result
WorkerFinish(i) ==
    /\ pool_pc # "off"
    /\ futures[i] = "RUNNING"
    /\ \E end \in RequestEnds(validator) : futures' = [futures EXCEPT ![i] = end]
    /\ UNCHANGED <<pool_results, pool_pc, pool_entry, pool_frame>>

\* list(executor.map(...)) takes the result of the next future in submission
\* order, waiting until that future is finished; an exception kept by the
\* future is raised out of list(...)
Collect ==
    /\ pool_pc = "collect"
    /\ LET k == Len(pool_results) + 1
       IN  /\ k \in DOMAIN futures
           /\ futures[k] \in {"True", "False", "raised"}
           /\ IF futures[k] = "raised"
              THEN /\ futures' = CancelAfter(futures, k)
                   /\ pool_pc' = "unwinding"
                   /\ UNCHANGED pool_results
              ELSE /\ pool_results' = CollectResult(pool_results, futures[k] = "True")
                   /\ pool_pc' = IF k = Len(futures) THEN "shutdown" ELSE "collect"
                   /\ UNCHANGED futures
    /\ UNCHANGED <<pool_entry, pool_frame>>

\* a shutdown that returns at once, as with wait=False
ShutdownReturnsAtOnce(fs) == TRUE

\* executor.shutdown(wait=True) returns when no request is pending or running
ShutdownWaits(fs) == \A i \in DOMAIN fs : fs[i] \in Finished

\* the with block is left through executor.shutdown(wait=True), which returns
\* when no request is pending or running; then the results are folded into
\* one entry, or (simple) the exception reaches except Exception
Fold ==
    /\ pool_pc \in {"shutdown", "unwinding"}
    /\ ShutdownWaits(futures)
    /\ pool_entry' =
          IF pool_pc = "shutdown"
          THEN << <<ConcurrentName(validator), ConcurrentOutcome(pool_results)>> >>
          ELSE << <<ConcurrentName(validator), "ERROR">> >>
    /\ pool_pc' = "done"
    /\ UNCHANGED <<futures, pool_results, pool_frame>>

NextPool ==
    \/ \E i \in DOMAIN futures : WorkerStart(i)
    \/ \E i \in DOMAIN futures : WorkerFinish(i)
    \/ Collect
    \/ Fold

SpecPool == InitPool /\ [][NextPool]_vars

----------------------------------------------------------------------------
(* One probe of a run of main *)

\* steps of one run (setup and the probes) that may end otherwise than in a
\* clean PASS
MaxFaults == 1

SubprocessHelpers == {"execute_test", "execute_python_test", "execute_via_service"}

\* the values an observation takes: those the judge tells apart when it
\* reads the observation, one fixed value when it does not
Values(p, field, read, unread) == IF field \in p.reads THEN read ELSE {unread}

\* the command ran to its end within the harness timeout
CompletedRuns(p) ==
    {[event |-> "completed", found |-> f, found2 |-> g, exit_code |-> x,
      elapsed |-> t, aux |-> a] :
        f \in Values(p, "found", BOOLEAN, FALSE),
        g \in Values(p, "found2", BOOLEAN, FALSE),
        x \in Values(p, "exit_code", {0, 1}, 0),
        t \in Values(p, "elapsed", {TargetLimit, ElapsedMargin}, 0),
        a \in Values(p, "aux", BOOLEAN, FALSE)}

\* subprocess.run raised: TimeoutExpired once HarnessTimeout seconds have
\* passed, any other exception at once
FailedRuns(p, event) ==
    {[event |-> event, found |-> FALSE, found2 |-> FALSE, exit_code |-> 0,
      elapsed |-> t, aux |-> a] :
        t \in Values(p, "elapsed",
                     IF event = "TimeoutExpired" THEN {HarnessTimeout} ELSE {0}, 0),
        a \in Values(p, "aux", BOOLEAN, FALSE)}

\* nothing is invoked
NoRun == [event |-> "none", found |-> FALSE, found2 |-> FALSE, exit_code |-> 0,
          elapsed |-> 0, aux |-> FALSE]

\* open(test_script, 'w') raised before anything was invoked
WriteFailed == [event |-> "OSError", found |-> FALSE, found2 |-> FALSE, exit_code |-> 0,
                elapsed |-> 0, aux |-> FALSE]

\* the concurrent probe as one step: every request returned True (found), one
\* returned False, or (simple) one raised
PoolRuns(v) ==
    {[NoRun EXCEPT !.event = "completed", !.found = f] : f \in BOOLEAN}
        \cup (IF v = "simple" THEN {[NoRun EXCEPT !.event = "Exception"]} ELSE {})

\* everything the environment can do to probe p
Runs(v, p, has_stub) ==
    CASE p.helper \in SubprocessHelpers ->
            CompletedRuns(p) \cup FailedRuns(p, "TimeoutExpired")
                \cup FailedRuns(p, "Exception")
                \cup (IF p.script THEN {WriteFailed} ELSE {})
      [] p.helper = "stub" /\ has_stub ->
            CompletedRuns(p) \cup FailedRuns(p, "Exception")
      [] p.helper = "pool" -> PoolRuns(v)
      [] OTHER -> {NoRun}

\* the list with the entry at its head
RecordFirst(list, entry) == <<entry>> \o list

\* test_results.append((name, outcome))
Record(list, entry) == Append(list, entry)

\* the outcome of the concurrent probe taken as one step
PoolOutcome(v, run) ==
    IF run.event = "Exception" THEN "ERROR"
    ELSE ConcurrentOutcome([i \in Requests(v) |-> (i > 1 \/ run.found)])

\* what probe p does to the running category function when the environment
\* does run:
\*   raised:  an exception leaves the probe (and the category function)
\*   outcome: the outcome it appends, or NoEntry
\*   returns: the category function returns right after the probe
ProbeStep(v, p, run, has_stub) ==
    IF run.event = "OSError"
    THEN [raised |-> TRUE, outcome |-> NoEntry, returns |-> FALSE]
    ELSE IF p.helper = "gate"
    THEN [raised |-> FALSE, outcome |-> IF has_stub THEN NoEntry ELSE "SKIP",
          returns |-> ~has_stub]
    ELSE IF p.helper = "pool"
    THEN [raised |-> FALSE, outcome |-> PoolOutcome(v, run), returns |-> FALSE]
    ELSE [raised |-> FALSE,
          outcome |-> Judge(v, p.name, Invoke(p.helper, run), run.elapsed, run.aux,
                            has_stub),
          returns |-> FALSE]

\* a probe that ends in a clean PASS, or is skipped, costs nothing
Cost(run, outcome) ==
    IF run.event \in {"completed", "none"} /\ outcome \in {"PASS", "SKIP", NoEntry}
    THEN 0 ELSE 1

\* the probe main runs after probe k
NextStep(v, k, returns) ==
    IF returns
    THEN 1 + CHOOSE j \in DOMAIN Probes(v) :
                 /\ Probes(v)[j].category = Probes(v)[k].category
                 /\ \A i \in DOMAIN Probes(v) :
                        Probes(v)[i].category = Probes(v)[k].category => i <= j
    ELSE k + 1

\* the category function of probe k returns before probe n
CategoryEnds(v, k, n) ==
    n \notin DOMAIN Probes(v) \/ Probes(v)[n].category # Probes(v)[k].category

----------------------------------------------------------------------------
(* A run of main *)

\* all_results[category] = validator.test_...()
StoreCategory(dict, category, list) == Append(dict, <<category, list>>)

\* an exit status that does not depend on the verdict
ExitStatusAlwaysZero(is_production_ready) == 0

\* sys.exit(0 if is_production_ready else 1)
ExitStatus(is_production_ready) == IF is_production_ready = "True" THEN 0 ELSE 1

\* the status the interpreter exits with when an exception leaves main
TracebackStatus == 1

InitMain ==
    /\ PoolIdle
    /\ validator \in Validators
    /\ all_results = <<>>
    /\ pc = "setup"
    /\ error = "none"
    /\ report = NoReport
    /\ writable \in BOOLEAN
    /\ report_file = "absent"
    /\ returned = "none"
    /\ peer_results = <<>>
    /\ peer_pc = "off"
    /\ peer_report = NoReport
    /\ step = 0
    /\ stub = FALSE
    /\ faults = 0
    /\ test_results = <<>>
    /\ trace = <<>>
    /\ exit_code = <<>>

main_frame == <<validator, writable, report, report_file, returned, peer_results,
                peer_pc, peer_report, pool_vars, helper_vars, rollback_vars>>

\* validator.setup(): the sandbox directory is made if it is missing, which
\* can fail; the full validator gets its stub when the gRPC modules import
Setup ==
    /\ pc = "setup"
    /\ \E made \in BOOLEAN, has_stub \in (IF validator = "full" THEN BOOLEAN ELSE {FALSE}) :
          LET cost == IF made THEN 0 ELSE 1
          IN  /\ faults + cost <= MaxFaults
              /\ faults' = faults + cost
              /\ IF made
                 THEN /\ pc' = "run"
                      /\ error' = error
                      /\ stub' = has_stub
                      /\ step' = 1
                 ELSE /\ ~has_stub
                      /\ pc' = "raised"
                      /\ error' = "OSError"
                      /\ UNCHANGED <<stub, step>>
    /\ UNCHANGED <<all_results, test_results, trace, exit_code, main_frame>>

\* the next probe of the running category function, from the writing of its
\* script to the appending of its outcome; the category function returns
\* after its last probe and main stores the list it returns
RunProbe ==
    /\ pc = "run"
    /\ step \in DOMAIN Probes(validator)
    /\ \E run \in Runs(validator, Probes(validator)[step], stub) :
       \E out \in {ProbeStep(validator, Probes(validator)[step], run, stub)} :
          LET p == Probes(validator)[step]
              n == NextStep(validator, step, out.returns)
              list == IF out.outcome = NoEntry THEN test_results
                      ELSE Record(test_results, <<p.name, out.outcome>>)
          IN  /\ faults + Cost(run, out.outcome) <= MaxFaults
              /\ faults' = faults + Cost(run, out.outcome)
              /\ trace' = IF p.helper = "gate" /\ stub THEN trace
                          ELSE Append(trace, [name |-> p.name, event |-> run.event,
                                              elapsed |-> run.elapsed])
              /\ IF out.raised
                 THEN /\ pc' = "raised"
                      /\ error' = "OSError"
                      /\ test_results' = <<>>
                      /\ UNCHANGED <<step, all_results>>
                 ELSE /\ step' = n
                      /\ error' = error
                      /\ pc' = IF n \in DOMAIN Probes(validator) THEN "run" ELSE "call"
                      /\ IF CategoryEnds(validator, step, n)
                         THEN /\ all_results' = StoreCategory(all_results, p.category, list)
                              /\ test_results' = <<>>
                         ELSE /\ test_results' = list
                              /\ UNCHANGED all_results
    /\ UNCHANGED <<stub, exit_code, main_frame>>

\* sys.exit(0 if is_production_ready else 1)
Exit ==
    /\ pc = "returned"
    /\ exit_code = <<>>
    /\ exit_code' = <<ExitStatus(returned)>>
    /\ UNCHANGED <<all_results, pc, error, step, stub, faults, test_results, trace,
                   main_frame>>

\* the status of a process ended by an unhandled KeyboardInterrupt: that of
\* a death by SIGINT, or STATUS_CONTROL_C_EXIT on Windows
InterruptStatuses == {130, -1073741510}

\* no handler in main: the exception ends the process with a traceback
Traceback ==
    /\ pc = "raised"
    /\ exit_code = <<>>
    /\ exit_code' \in {<<status>> : status \in
                           IF error = "KeyboardInterrupt" THEN InterruptStatuses
                           ELSE {TracebackStatus}}
    /\ UNCHANGED <<all_results, pc, error, step, stub, faults, test_results, trace,
                   main_frame>>

\* main from the call of generate_report on, on a result set of the family
\* PairSets: every readiness value occurs in both validators
InitExit ==
    /\ MainIdle
    /\ PoolIdle
    /\ validator \in Validators
    /\ all_results \in PairSets(validator)
    /\ pc = "call"
    /\ error = "none"
    /\ report = NoReport
    /\ writable \in BOOLEAN
    /\ report_file = "absent"
    /\ returned = "none"
    /\ peer_results = <<>>
    /\ peer_pc = "off"
    /\ peer_report = NoReport

NextExit == GenerateReport \/ Exit \/ Traceback

SpecExit == InitExit /\ [][NextExit]_vars

\* an external interrupt (Ctrl-C) while a category function runs:
\* KeyboardInterrupt is no Exception, so no handler of a helper or a probe
\* catches it and main has none; the running category's list is dropped with
\* its frame
Interrupt ==
    /\ pc = "run"
    /\ step \in DOMAIN Probes(validator)
    /\ faults + 1 <= MaxFaults
    /\ faults' = faults + 1
    /\ pc' = "raised"
    /\ error' = "KeyboardInterrupt"
    /\ test_results' = <<>>
    /\ UNCHANGED <<all_results, step, stub, trace, exit_code, main_frame>>

NextMain == Setup \/ RunProbe \/ Interrupt \/ GenerateReport \/ Exit \/ Traceback

SpecMain == InitMain /\ [][NextMain]_vars

\* every step main can take is eventually taken
FairMain == SpecMain /\ WF_vars(NextMain)

----------------------------------------------------------------------------
(* Properties of the probes and of main *)

\* the entries recorded so far in the run: the stored categories and the
\* list of the running category function
Recorded == Flatten(all_results) \o test_results

\* the outcomes recorded under a probe name
OutcomesOf(name) == {Recorded[i][2] : i \in {j \in DOMAIN Recorded : Recorded[j][1] = name}}

\* the probe was attempted and its invocation ended with the event
Attempted(name, event) ==
    \E i \in DOMAIN trace : trace[i].name = name /\ trace[i].event = event

\* the probes whose judge expects the command to be ended under a time bound
BoundJudged == {"Execution Timeout (30s)", "Timeout Cleanup"}

\* the probes whose judge looks for the output of a successful command
OutputJudged == {"Low Integrity Level"}

\* C11: when a probe's invocation times out at the harness level, a probe
\* whose judge expects termination under a bound is recorded PASS and a probe
\* whose judge expects successful output (Low Integrity Level) is recorded
\* ERROR.
C11_HarnessTimeoutPassOrError ==
    pc # "raised" =>
        /\ \A name \in BoundJudged :
              Attempted(name, "TimeoutExpired") => OutcomesOf(name) = {"PASS"}
        /\ \A name \in OutputJudged :
              Attempted(name, "TimeoutExpired") => OutcomesOf(name) = {"ERROR"}

\* C12: for the "Execution Timeout (30s)" probe, when the invocation ends by
\* the harness's own 35 s timeout, the recorded outcome is PASS if the
\* measured elapsed time is below 33 s and WARN otherwise.
C12_ExecutionTimeoutPassOrWarn ==
    pc # "raised" =>
        \A i \in DOMAIN trace :
            (trace[i].name = "Execution Timeout (30s)" /\ trace[i].event = "TimeoutExpired")
                => OutcomesOf(trace[i].name)
                     = {IF trace[i].elapsed < ElapsedMargin THEN "PASS" ELSE "WARN"}

EntriesOf(name) == Cardinality({j \in DOMAIN Recorded : Recorded[j][1] = name})

\* C14: every probe attempted in a category contributes exactly one (name,
\* outcome) entry to that category's result list on every path, including
\* when the invocation helper returns None: no attempted probe is left
\* unrecorded and none is recorded twice.
C14_OneEntryPerAttemptedProbe ==
    pc # "raised" => \A i \in DOMAIN trace : EntriesOf(trace[i].name) = 1

\* C15: an exception raised while a probe is prepared (its script file is
\* written into the sandbox) is caught at that probe's boundary and recorded
\* as ERROR for that probe, and the remaining probes and categories still run.
C15_PreparationErrorContained ==
    \A i \in DOMAIN trace :
        trace[i].event = "OSError"
            => /\ pc # "raised"
               /\ OutcomesOf(trace[i].name) = {"ERROR"}

\* C16: every run of main that setup did not stop eventually completes all
\* six categories and emits the report, whatever the probes' outcomes and
\* invocation failures are.
C16_MainCompletes ==
    (pc = "run") ~> (pc = "returned" /\ Len(all_results) = Len(Categories(validator)))

\* the readiness values with which the validator is to exit with status 0
ZeroReadiness(v) == IF v = "full" THEN {"YES"} ELSE {"YES", "CONDITIONAL"}

\* C17: the process exit code is 0 if and only if readiness is YES in the
\* full validator (strict), and 0 if and only if readiness is YES or
\* CONDITIONAL in the simple validator; in every other run that ends it is
\* non-zero.
C17_ExitCodeFollowsReadiness ==
    exit_code # <<>> =>
        ((exit_code[1] = 0)
            <=> (pc = "returned" /\ report.production_ready \in ZeroReadiness(validator)))

\* the simple validator exits with 0 on a CONDITIONAL verdict
C17_Witness ==
    /\ validator = "simple"
    /\ pc = "returned"
    /\ exit_code = <<0>>
    /\ report.production_ready = "CONDITIONAL"

\* the full validator exits with 1 on a CONDITIONAL verdict
C17_WitnessStrict ==
    /\ validator = "full"
    /\ pc = "returned"
    /\ exit_code = <<1>>
    /\ report.production_ready = "CONDITIONAL"

\* the fields of the statistics block
StatisticsFields == {"total", "passed", "failed", "partial", "warnings", "skipped",
                     "errored", "pass_rate"}

\* C18: in every emitted report the statistics block carries exactly the
\* fields total, passed, failed, partial, warnings, skipped, errored and
\* pass_rate, and every outcome string written to results is one of PASS,
\* FAIL, PARTIAL, WARN, SKIP, ERROR.
C18_StatisticsFieldsAndOutcomes ==
    pc = "returned" =>
        /\ DOMAIN report.statistics = StatisticsFields
        /\ \A i \in DOMAIN Flatten(report.results) :
              Flatten(report.results)[i][2] \in Outcomes

\* the place of a probe name in the declaration order of the validator
Place(v, name) == CHOOSE k \in DOMAIN Probes(v) : Probes(v)[k].name = name

\* the entries of a list belong to the category and stand in the order in
\* which the category function runs its probes
InProbeOrder(v, category, list) ==
    /\ \A i \in DOMAIN list :
          /\ \E k \in DOMAIN Probes(v) : Probes(v)[k].name = list[i][1]
          /\ Probes(v)[Place(v, list[i][1])].category = category
    /\ \A i, j \in DOMAIN list :
          i < j => Place(v, list[i][1]) < Place(v, list[j][1])

\* C19: the categories are executed one after another in declaration order;
\* within each category the entries appear in the order the probes are run;
\* and the results of the report preserve both orders exactly.
C19_OrderPreserved ==
    /\ Len(all_results) <= Len(Categories(validator))
    /\ \A k \in DOMAIN all_results :
          /\ all_results[k][1] = Categories(validator)[k]
          /\ InProbeOrder(validator, all_results[k][1], all_results[k][2])
    /\ (pc = "run" /\ step \in DOMAIN Probes(validator))
          => /\ Probes(validator)[step].category
                  = Categories(validator)[Len(all_results) + 1]
             /\ InProbeOrder(validator, Probes(validator)[step].category, test_results)
    /\ pc = "returned"
          => /\ report.results = all_results
             /\ Len(report.results) = Len(Categories(validator))

\* a report of the full validator whose first category holds its five entries
C19_Witness ==
    /\ validator = "full"
    /\ pc = "returned"
    /\ Len(report.results) = 6
    /\ Len(report.results[1][2]) = 5
    /\ report.results[1][2][1][1] = "Low Integrity Level"
    /\ report.results[1][2][5][1] = "Working Directory Enforcement"

\* C20: the concurrent probe's outcome is folded into the category result
\* only after every pooled request has finished, and one request that is
\* slow, fails or raises does not block or cancel its siblings: each sibling
\* still runs to completion and its own success or failure is what is counted
\* in the recorded outcome.
C20_SiblingsRunAndCount ==
    /\ pool_entry # <<>> => \A i \in DOMAIN futures : futures[i] \in Finished
    /\ pool_pc = "done" =>
          \A i \in DOMAIN futures :
              /\ futures[i] \in {"True", "False", "raised"}
              /\ futures[i] \in {"True", "False"}
                    => /\ i \in DOMAIN pool_results
                       /\ pool_results[i] = (futures[i] = "True")

----------------------------------------------------------------------------
(* The invocations in flight during a run of main *)

\* main is about to run its first probe; only the invocations are followed,
\* not their results
InitFlight ==
    /\ validator \in Validators
    /\ all_results = <<>>
    /\ pc = "run"
    /\ error = "none"
    /\ report = NoReport
    /\ writable = TRUE
    /\ report_file = "absent"
    /\ returned = "none"
    /\ peer_results = <<>>
    /\ peer_pc = "off"
    /\ peer_report = NoReport
    /\ step = 1
    /\ stub \in (IF validator = "full" THEN BOOLEAN ELSE {FALSE})
    /\ faults = 0
    /\ test_results = <<>>
    /\ trace = <<>>
    /\ exit_code = <<>>
    /\ PoolIdle

flight_frame == <<validator, all_results, error, report, writable, report_file, returned,
                  peer_results, peer_pc, peer_report, stub, faults, test_results, trace,
                  exit_code, helper_vars, rollback_vars>>

\* the probe at the step calls a helper or the stub
Invokes(v, k, has_stub) ==
    \/ Probes(v)[k].helper \in SubprocessHelpers
    \/ Probes(v)[k].helper = "stub" /\ has_stub

\* where main is after probe k
After(v, n) == IF n \in DOMAIN Probes(v) THEN "run" ELSE "call"

\* main enters subprocess.run (or stub.Execute) and blocks in it
StartInvoke ==
    /\ pc = "run"
    /\ step \in DOMAIN Probes(validator)
    /\ Invokes(validator, step, stub)
    /\ pc' = "invoking"
    /\ UNCHANGED <<step, flight_frame, pool_vars>>

\* the call returns (or raises into the helper's handler); the probe judges
\* and main goes on to the next probe
ReturnInvoke ==
    /\ pc = "invoking"
    /\ step' = step + 1
    /\ pc' = After(validator, step + 1)
    /\ UNCHANGED <<flight_frame, pool_vars>>

\* a probe that invokes nothing; the gate returns from the category function
\* when there is no stub
PassBy ==
    /\ pc = "run"
    /\ step \in DOMAIN Probes(validator)
    /\ ~Invokes(validator, step, stub)
    /\ Probes(validator)[step].helper # "pool"
    /\ LET n == NextStep(validator, step, Probes(validator)[step].helper = "gate" /\ ~stub)
       IN  /\ step' = n
           /\ pc' = After(validator, n)
    /\ UNCHANGED <<flight_frame, pool_vars>>

\* the concurrent probe: executor.map submits every request
Submit ==
    /\ pc = "run"
    /\ step \in DOMAIN Probes(validator)
    /\ Probes(validator)[step].helper = "pool"
    /\ pc' = "pool"
    /\ futures' = [i \in Requests(validator) |-> "PENDING"]
    /\ pool_pc' = "collect"
    /\ UNCHANGED <<pool_results, pool_entry, step, flight_frame>>

\* the concurrent probe has appended its entry; main goes on
LeavePool ==
    /\ pc = "pool"
    /\ pool_pc = "done"
    /\ step' = step + 1
    /\ pc' = After(validator, step + 1)
    /\ UNCHANGED <<flight_frame, pool_vars>>

NextFlight ==
    \/ StartInvoke
    \/ ReturnInvoke
    \/ PassBy
    \/ Submit
    \/ \E i \in DOMAIN futures : WorkerStart(i)
    \/ \E i \in DOMAIN futures : WorkerFinish(i)
    \/ Collect
    \/ Fold
    \/ LeavePool

SpecFlight == InitFlight /\ [][NextFlight]_vars

\* the invocations of the target that have begun and not yet returned
InFlight ==
    (IF pc = "invoking" THEN {<<"main", step>>} ELSE {})
        \cup {<<"worker", i>> : i \in {j \in DOMAIN futures : futures[j] = "RUNNING"}}

\* C21: at every moment of a run at most one target invocation is in flight,
\* except during the concurrent probe, where at most max_workers invocations
\* are in flight; no sequential probe starts before the previous probe's
\* invocation has returned, and nothing main does after the concurrent probe
\* overlaps its workers.
C21_InvocationsInFlight ==
    /\ Cardinality(InFlight) <= (IF pc = "pool" THEN max_workers(validator) ELSE 1)
    /\ pc = "invoking" => InFlight = {<<"main", step>>}
    /\ pc \notin {"invoking", "pool"} => InFlight = {}

\* every worker of the pool has an invocation in flight at once
C21_Witness ==
    /\ pc = "pool"
    /\ Cardinality(InFlight) = max_workers(validator)

\* one file name for every request
ConcurrentFileShared(i) == <<"concurrent_", 0, ".bat">>

\* f"concurrent_{i}.bat", for the i-th element of range(3) (counted from 1 here)
ConcurrentFile(i) == <<"concurrent_", i - 1, ".bat">>

\* what the request function of worker i writes: its own future's result and,
\* in the simple validator, its script file; make_request writes no file
WorkerWrites(v, i) ==
    {<<"future", i>>}
        \cup (IF v = "simple" THEN {<<"file", ConcurrentFile(i)>>} ELSE {})

\* the resources worker i has been writing so far
Written(i) ==
    IF futures[i] \in {"RUNNING", "True", "False", "raised"}
    THEN WorkerWrites(validator, i)
    ELSE {}

\* C22: the workers of the concurrent probe share no mutable state: each
\* worker writes only its own sandbox file and its own return value, never
\* the category result list, so in no reachable interleaving have two
\* workers written the same resource; the list gets the probe's entry from
\* the submitting thread when no worker runs any more.
C22_WorkersShareNothing ==
    /\ \A i, j \in DOMAIN futures : i # j => Written(i) \cap Written(j) = {}
    /\ \A i \in DOMAIN futures : \A r \in Written(i) : r[1] \in {"future", "file"}
    /\ pool_entry # <<>> => \A i \in DOMAIN futures : futures[i] # "RUNNING"

\* two workers of the simple validator are running at once, each having
\* written its own file
C22_Witness ==
    /\ validator = "simple"
    /\ \E i, j \in DOMAIN futures :
          /\ i # j
          /\ futures[i] = "RUNNING"
          /\ futures[j] = "RUNNING"
          /\ Written(i) # Written(j)

\* the probe's helper returned None for the invocation recorded at trace[i]
ReturnedNone(i) ==
    \E k \in DOMAIN Probes(validator) :
        LET p == Probes(validator)[k]
        IN  /\ p.name = trace[i].name
            /\ p.helper \in SubprocessHelpers
            /\ Invoke(p.helper, [NoRun EXCEPT !.event = trace[i].event]) = None

\* C24: a probe whose target could not be reached or executed at all (the
\* invocation helper returns no result) is recorded with outcome ERROR, never
\* PASS, FAIL, PARTIAL or WARN.
C24_UnreachedRecordedError ==
    pc # "raised" =>
        \A i \in DOMAIN trace :
            ReturnedNone(i) => OutcomesOf(trace[i].name) = {"ERROR"}

\* the weaker half of C24: whatever is recorded for such a probe, it is not
\* PASS, FAIL, PARTIAL or WARN
C24_NeverJudged ==
    pc # "raised" =>
        \A i \in DOMAIN trace :
            ReturnedNone(i) =>
                OutcomesOf(trace[i].name) \cap {"PASS", "FAIL", "PARTIAL", "WARN"} = {}

\* the critical probes of C24 are not recorded PASS or FAIL when no result
\* came back
C24_CriticalNeverPassOrFail ==
    pc # "raised" =>
        \A i \in DOMAIN trace :
            (ReturnedNone(i)
               /\ trace[i].name \in {"Execution Timeout (30s)", "Low Integrity Level"})
                => OutcomesOf(trace[i].name) \cap {"PASS", "FAIL"} = {}

\* C26: the justification text is determined solely by which readiness branch
\* fired: within one validator two reports with the same readiness carry the
\* same sentence, the sentence is the fixed one of that branch, and two runs
\* with identical result sets produce identical justification.
C26_JustificationFollowsReadiness ==
    BothReported =>
        /\ report.production_ready = peer_report.production_ready
              => report.justification = peer_report.justification
        /\ report.justification = Justification(validator, report.production_ready)
        /\ all_results = peer_results
              => report.justification = peer_report.justification

\* two runs with different result sets and different severity, the same
\* readiness and the same sentence
C26_Witness ==
    /\ BothReported
    /\ all_results # peer_results
    /\ report.severity # peer_report.severity
    /\ report.production_ready = peer_report.production_ready
    /\ report.justification = peer_report.justification

\* the readiness the two validators' rules give one result set
FullReadiness == Verdict("full", all_results).production_ready
SimpleReadiness == Verdict("simple", all_results).production_ready

\* C28: for every result set the simple validator's readiness is at least as
\* permissive as the full validator's: whenever the full rules give YES the
\* simple rules give YES too, and whenever the full rules give CONDITIONAL
\* the simple rules give YES or CONDITIONAL.
C28_SimpleAtLeastAsPermissive ==
    total_tests(all_results) > 0 =>
        /\ FullReadiness = "YES" => SimpleReadiness = "YES"
        /\ FullReadiness = "CONDITIONAL" => SimpleReadiness \in {"YES", "CONDITIONAL"}

\* generate_report has been invoked: main got past its six category calls
Invoked ==
    /\ pc \in {"returned", "raised"}
    /\ Len(all_results) = Len(Categories(validator))

\* the safety half of C27: generate_report is entered with all six category
\* lists stored, builds the report from them, and the report and the value
\* returned do not change afterwards
C27_OnlyAfterAllAndFinal ==
    /\ [](pc = "call" => (Len(all_results) = Len(Categories(validator))
                            /\ test_results = <<>> /\ report = NoReport))
    /\ [][report' # report =>
            (pc = "call" /\ report' = ReportData(validator, all_results))]_vars
    /\ [][Invoked => (Invoked' /\ report' = report /\ returned' = returned
                        /\ all_results' = all_results)]_vars

\* C27: generate_report is invoked exactly once per run and only after all
\* six categories have returned their result lists; the verdict is computed
\* from that completed result set and is not recomputed or modified
\* afterwards.
C27_ReportOnceAfterAllCategories ==
    /\ (pc = "run") ~> Invoked
    /\ C27_OnlyAfterAllAndFinal

\* C25: if the run receives an external interrupt after some categories
\* have completed, the results accumulated so far are still emitted as a
\* report: an interrupt in category k never loses the recorded outcomes of
\* categories 1..k-1.
C25_InterruptKeepsCompleted ==
    (error = "KeyboardInterrupt" /\ exit_code # <<>> /\ Len(all_results) >= 1) =>
        /\ report # NoReport
        /\ report.results = all_results

----------------------------------------------------------------------------
(* One call of an invocation helper *)

\* the exit codes a completed command is given here
MaxExitCode == 4

\* what the command run by subprocess.run can do: complete with some output
\* (found, found2: what the judges look for in stdout, stderr or output) and
\* some exit code, outlast the timeout of 35 s, or fail to start
HelperRuns ==
    {[NoRun EXCEPT !.event = "completed", !.found = f, !.found2 = g, !.exit_code = x] :
        f \in BOOLEAN, g \in BOOLEAN, x \in 0..MaxExitCode}
        \cup {[NoRun EXCEPT !.event = e] : e \in {"TimeoutExpired", "Exception"}}

InitHelper ==
    /\ NoMain
    /\ NoPool
    /\ RollbackIdle
    /\ validator \in Validators
    /\ all_results = <<>>
    /\ pc = "helper"
    /\ error = "none"
    /\ report = NoReport
    /\ writable = TRUE
    /\ report_file = "absent"
    /\ returned = "none"
    /\ peer_results = <<>>
    /\ peer_pc = "off"
    /\ peer_report = NoReport
    /\ invocation \in {<<[helper |-> h, run |-> r]>> :
                          h \in (IF validator = "full"
                                 THEN {"execute_test", "execute_python_test"}
                                 ELSE {"execute_via_service"}),
                          r \in HelperRuns}
    /\ helper_result = <<>>

\* the helper runs the command and returns
CallHelper ==
    /\ pc = "helper"
    /\ invocation # <<>>
    /\ helper_result = <<>>
    /\ helper_result' = <<Invoke(invocation[1].helper, invocation[1].run)>>
    /\ UNCHANGED <<validator, all_results, pc, error, report, writable, report_file,
                   returned, peer_results, peer_pc, peer_report, main_vars, pool_vars,
                   invocation, rollback_vars>>

NextHelper == CallHelper

SpecHelper == InitHelper /\ [][NextHelper]_vars

\* C23: the invocation helpers execute_test, execute_python_test and
\* execute_via_service never raise for a nonzero exit code, stderr output
\* or a timeout; each of these expected failure modes is returned as a
\* result record (exit code and output fields, a timeout as exit code -1)
\* rather than as an exception or as a missing result.
C23_ExpectedFailuresReturned ==
    (helper_result # <<>> /\ invocation[1].run.event \in {"completed", "TimeoutExpired"}) =>
        /\ helper_result[1].kind = "dict"
        /\ invocation[1].run.event = "completed"
              => helper_result[1].exit_code = invocation[1].run.exit_code
        /\ invocation[1].run.event = "TimeoutExpired"
              => helper_result[1].exit_code = -1

----------------------------------------------------------------------------
(* test_rollback.py: the rollback test and the concurrent access test *)

\* range(1, 101): the record ids put into the queue (100 in the program)
MaxRecords == 3

\* how often the script is run again on the directory it left behind
MaxReruns == 1

num_workers == 4

\* settings.max_items as setup_test_data writes it
max_items == 100

\* config["settings"]["max_items"] = 200
modified_max_items == 200

RecordIds == 1..MaxRecords

WorkerIds == 0..(num_workers - 1)

\* a directory: config.json reduced to max_items, data.txt to the number of
\* lines appended to its three original lines, records/record<i>.json to its
\* "updates" count (0: a record without that key); <<>> is a missing file
NoDir == [config |-> <<>>, data |-> <<>>, records |-> [i \in RecordIds |-> <<>>]]

\* setup_test_data(): writes config.json, data.txt, record1.json and
\* record2.json; whatever else the directory holds stays
setup_test_data(dir) ==
    [config  |-> <<max_items>>,
     data    |-> <<0>>,
     records |-> [i \in RecordIds |-> IF i \in {1, 2} THEN <<0>> ELSE dir.records[i]]]

\* verify_data_integrity(test_files): the four files of test_files exist
\* with the content setup_test_data gave them; other files are not looked at
verify_data_integrity(dir) ==
    /\ dir.config = <<max_items>>
    /\ dir.data = <<0>>
    /\ dir.records[1] = <<0>>
    /\ dir.records[2] = <<0>>

\* the snapshot copied over the directory as it is, nothing removed first
RestoreOver(dir, snapshot) ==
    [config  |-> IF snapshot.config = <<>> THEN dir.config ELSE snapshot.config,
     data    |-> IF snapshot.data = <<>> THEN dir.data ELSE snapshot.data,
     records |-> [i \in RecordIds |-> IF snapshot.records[i] = <<>> THEN dir.records[i]
                                      ELSE snapshot.records[i]]]

\* shutil.rmtree(TEST_DATA_DIR); shutil.copytree(snapshot_dir, TEST_DATA_DIR)
Restore(dir, snapshot) == snapshot

\* every worker opening one and the same file
RecordPathShared(record_id) == 1

\* records/record{record_id}.json
RecordPath(record_id) == record_id

\* record.get("updates", 0) of the file read, 0 for a missing file
ReadUpdates(file) == IF file = <<>> THEN 0 ELSE file[1]

RECURSIVE SumUpdates(_, _)
\* total_updates over the .json files of the records directory
SumUpdates(records, n) ==
    IF n = 0 THEN 0 ELSE ReadUpdates(records[n]) + SumUpdates(records, n - 1)

Unstarted == [pc |-> "unstarted", record_id |-> 0, updates |-> 0]

\* the script is started on a sandbox that holds no test data
InitRollback ==
    /\ NoMain
    /\ NoPool
    /\ NoValidator
    /\ HelperIdle
    /\ data_dir = NoDir
    /\ snapshot_dir = NoDir
    /\ rollback_pc = "atomic"
    /\ integrity = <<>>
    /\ record_queue = <<>>
    /\ workers = [w \in WorkerIds |-> Unstarted]
    /\ dequeued = [i \in RecordIds |-> <<>>]
    /\ total_updates = <<>>
    /\ reruns = 0

rollback_frame == <<validator, all_results, pc, error, report, writable, report_file,
                    returned, peer_results, peer_pc, peer_report, main_vars, pool_vars,
                    helper_vars, reruns>>

\* test_atomic_operations: test_files = setup_test_data()
SetupAtomic ==
    /\ rollback_pc = "atomic"
    /\ data_dir' = setup_test_data(data_dir)
    /\ rollback_pc' = "snapshot"
    /\ UNCHANGED <<snapshot_dir, integrity, record_queue, workers, dequeued,
                   total_updates, rollback_frame>>

\* shutil.copytree(TEST_DATA_DIR, snapshot_dir)
Snapshot ==
    /\ rollback_pc = "snapshot"
    /\ snapshot_dir' = data_dir
    /\ rollback_pc' = "config"
    /\ UNCHANGED <<data_dir, integrity, record_queue, workers, dequeued,
                   total_updates, rollback_frame>>

ModifyConfig ==
    /\ rollback_pc = "config"
    /\ data_dir' = [data_dir EXCEPT !.config = <<modified_max_items>>]
    /\ rollback_pc' = "append"
    /\ UNCHANGED <<snapshot_dir, integrity, record_queue, workers, dequeued,
                   total_updates, rollback_frame>>

AppendData ==
    /\ rollback_pc = "append"
    /\ data_dir' = [data_dir EXCEPT !.data = <<data_dir.data[1] + 1>>]
    /\ rollback_pc' = "record"
    /\ UNCHANGED <<snapshot_dir, integrity, record_queue, workers, dequeued,
                   total_updates, rollback_frame>>

\* record3.json is written, then the simulated failure is raised
AddRecord ==
    /\ rollback_pc = "record"
    /\ data_dir' = [data_dir EXCEPT !.records[3] = <<0>>]
    /\ rollback_pc' = "rollback"
    /\ UNCHANGED <<snapshot_dir, integrity, record_queue, workers, dequeued,
                   total_updates, rollback_frame>>

\* except Exception: the directory is removed and copied back from the snapshot
Rollback ==
    /\ rollback_pc = "rollback"
    /\ data_dir' = Restore(data_dir, snapshot_dir)
    /\ rollback_pc' = "verify"
    /\ UNCHANGED <<snapshot_dir, integrity, record_queue, workers, dequeued,
                   total_updates, rollback_frame>>

Verify ==
    /\ rollback_pc = "verify"
    /\ integrity' = <<verify_data_integrity(data_dir)>>
    /\ rollback_pc' = "cleanup"
    /\ UNCHANGED <<data_dir, snapshot_dir, record_queue, workers, dequeued,
                   total_updates, rollback_frame>>

\* finally: shutil.rmtree(snapshot_dir); test_atomic_operations returns
Cleanup ==
    /\ rollback_pc = "cleanup"
    /\ snapshot_dir' = NoDir
    /\ rollback_pc' = "concurrent"
    /\ UNCHANGED <<data_dir, integrity, record_queue, workers, dequeued,
                   total_updates, rollback_frame>>

\* test_concurrent_access up to the loop that starts the threads
FillQueue ==
    /\ rollback_pc = "concurrent"
    /\ data_dir' = setup_test_data(data_dir)
    /\ record_queue' = [i \in RecordIds |-> i]
    /\ dequeued' = [i \in RecordIds |-> <<>>]
    /\ workers' = [w \in WorkerIds |-> Unstarted]
    /\ rollback_pc' = "spawn"
    /\ UNCHANGED <<snapshot_dir, integrity, total_updates, rollback_frame>>

\* thread.start() of the next worker, in the order of range(num_workers)
StartThread ==
    /\ rollback_pc = "spawn"
    /\ \E w \in WorkerIds :
          /\ workers[w].pc = "unstarted"
          /\ \A v \in WorkerIds : v < w => workers[v].pc # "unstarted"
          /\ workers' = [workers EXCEPT ![w].pc = "get"]
          /\ rollback_pc' = IF w = num_workers - 1 THEN "join" ELSE "spawn"
    /\ UNCHANGED <<data_dir, snapshot_dir, integrity, record_queue, dequeued,
                   total_updates, rollback_frame>>

\* record_id = record_queue.get_nowait(), the queue holding an id
Get(w) ==
    /\ workers[w].pc = "get"
    /\ record_queue # <<>>
    /\ workers' = [workers EXCEPT ![w].pc = "read", ![w].record_id = Head(record_queue)]
    /\ dequeued' = [dequeued EXCEPT ![Head(record_queue)] = Append(@, w)]
    /\ record_queue' = Tail(record_queue)
    /\ UNCHANGED <<data_dir, snapshot_dir, rollback_pc, integrity, total_updates,
                   rollback_frame>>

\* except queue.Empty: break
Empty(w) ==
    /\ workers[w].pc = "get"
    /\ record_queue = <<>>
    /\ workers' = [workers EXCEPT ![w].pc = "done"]
    /\ UNCHANGED <<data_dir, snapshot_dir, rollback_pc, integrity, record_queue,
                   dequeued, total_updates, rollback_frame>>

\* the record is read, or made when its file is missing, and its count raised
Read(w) ==
    /\ workers[w].pc = "read"
    /\ workers' = [workers EXCEPT
                      ![w].pc = "write",
                      ![w].updates =
                          ReadUpdates(data_dir.records[RecordPath(workers[w].record_id)]) + 1]
    /\ UNCHANGED <<data_dir, snapshot_dir, rollback_pc, integrity, record_queue,
                   dequeued, total_updates, rollback_frame>>

\* after the sleep: json.dump(record, f) into the record's file
Write(w) ==
    /\ workers[w].pc = "write"
    /\ data_dir' = [data_dir EXCEPT
                       !.records[RecordPath(workers[w].record_id)] = <<workers[w].updates>>]
    /\ workers' = [workers EXCEPT ![w].pc = "get"]
    /\ UNCHANGED <<snapshot_dir, rollback_pc, integrity, record_queue, dequeued,
                   total_updates, rollback_frame>>

\* every thread.join() has returned; the updates of the record files are summed
Join ==
    /\ rollback_pc = "join"
    /\ \A w \in WorkerIds : workers[w].pc = "done"
    /\ total_updates' = <<SumUpdates(data_dir.records, MaxRecords)>>
    /\ rollback_pc' = "end"
    /\ UNCHANGED <<data_dir, snapshot_dir, integrity, record_queue, workers, dequeued,
                   rollback_frame>>

\* the script is run again: the sandbox is as the last run left it
Rerun ==
    /\ rollback_pc = "end"
    /\ reruns < MaxReruns
    /\ reruns' = reruns + 1
    /\ rollback_pc' = "atomic"
    /\ integrity' = <<>>
    /\ total_updates' = <<>>
    /\ workers' = [w \in WorkerIds |-> Unstarted]
    /\ dequeued' = [i \in RecordIds |-> <<>>]
    /\ UNCHANGED <<data_dir, snapshot_dir, record_queue, validator, all_results, pc,
                   error, report, writable, report_file, returned, peer_results, peer_pc,
                   peer_report, main_vars, pool_vars, helper_vars>>

NextRollback ==
    \/ SetupAtomic
    \/ Snapshot
    \/ ModifyConfig
    \/ AppendData
    \/ AddRecord
    \/ Rollback
    \/ Verify
    \/ Cleanup
    \/ FillQueue
    \/ StartThread
    \/ \E w \in WorkerIds : Get(w)
    \/ \E w \in WorkerIds : Empty(w)
    \/ \E w \in WorkerIds : Read(w)
    \/ \E w \in WorkerIds : Write(w)
    \/ Join
    \/ Rerun

SpecRollback == InitRollback /\ [][NextRollback]_vars

\* the main thread and the started workers are all scheduled on
FairRollback == SpecRollback /\ WF_vars(NextRollback)

----------------------------------------------------------------------------
(* Properties of test_rollback.py *)

\* the "updates" count record i carries when the workers start: record1 and
\* record2 are rewritten by setup_test_data, the others carry one update of
\* each earlier run of the script
UpdatesBefore(i) == IF i \in {1, 2} THEN 0 ELSE reruns

\* what has happened to the records so far, and at the end of the test
UpdatedOnce ==
    /\ \A i \in RecordIds : Len(dequeued[i]) <= 1
    /\ rollback_pc = "end" =>
          /\ record_queue = <<>>
          /\ \A w \in WorkerIds : workers[w].pc = "done"
          /\ \A i \in RecordIds :
                /\ Len(dequeued[i]) = 1
                /\ data_dir.records[i] = <<UpdatesBefore(i) + 1>>
          /\ reruns = 0 =>
                /\ \A i \in RecordIds : data_dir.records[i] = <<1>>
                /\ total_updates = <<MaxRecords>>

\* C29: in test_concurrent_access, with 4 worker threads draining the queue
\* of record ids and starting from freshly set-up test data, under every
\* interleaving each id is dequeued and processed by exactly one worker,
\* every worker has terminated with the queue empty when the threads are
\* joined, and each record has been updated exactly once: the total of the
\* updates is the number of records (100 in the program), none lost, none
\* duplicated.
C29_EachRecordUpdatedOnce ==
    /\ []UpdatedOnce
    /\ (rollback_pc = "join") ~> (rollback_pc = "end")

\* the first run of the script has joined its workers, and two different
\* workers have processed records
C29_Witness ==
    /\ rollback_pc = "end"
    /\ reruns = 0
    /\ total_updates = <<MaxRecords>>
    /\ \E i, j \in RecordIds : dequeued[i] # <<>> /\ dequeued[j] # <<>>
                                 /\ dequeued[i] # dequeued[j]

\* C30 (as claimed): in test_atomic_operations, after the three
\* modifications and the simulated failure, the rollback restores the test
\* data directory to exactly its snapshot state: config.json has max_items
\* 100 again, data.txt has no appended line, record3.json is absent, and
\* verify_data_integrity returns True.
C30_RollbackRestoresAndRecordAbsent ==
    rollback_pc = "cleanup" =>
        /\ data_dir = snapshot_dir
        /\ data_dir.config = <<max_items>>
        /\ data_dir.data = <<0>>
        /\ data_dir.records[3] = <<>>
        /\ integrity = <<TRUE>>

\* C30 (amended): the rollback restores the test data directory to exactly
\* its snapshot state: config.json has max_items 100 again, data.txt has no
\* appended line, verify_data_integrity returns True, and record3.json is as
\* the snapshot has it: absent when the script runs on a sandbox without
\* test data, and the record3.json an earlier run's concurrent access test
\* left there otherwise.
C30_RollbackRestoresSnapshot ==
    rollback_pc = "cleanup" =>
        /\ data_dir = snapshot_dir
        /\ data_dir.config = <<max_items>>
        /\ data_dir.data = <<0>>
        /\ data_dir.records[3] = (IF reruns = 0 THEN <<>> ELSE <<reruns>>)
        /\ integrity = <<TRUE>>

\* the first run of the script has rolled back and verified
C30_Witness ==
    /\ rollback_pc = "cleanup"
    /\ reruns = 0
    /\ integrity = <<TRUE>>
    /\ data_dir.records[3] = <<>>
    /\ data_dir = snapshot_dir

====
